---- MODULE Spec2Model ----
(***************************************************************************)
(* Task Nudge: the idle detector, the one-shot ping timer, the check-in    *)
(* flow and the adaptive interval controller of the extension.             *)
(*                                                                         *)
(* Time is the value of Date.now() in milliseconds.  The host serialises   *)
(* callbacks, so every handler runs to its first await in one step; the    *)
(* asynchronous showPing continues in later steps, one for each await at   *)
(* which other callbacks can observe a different state.                    *)
(***************************************************************************)
EXTENDS Integers, Sequences, FiniteSets, Bags, TLC

\* ------------------------------------------------------------------ bounds
MaxTicks == 8             \* horizon of the clock, in poll periods
MaxMinutes == 3           \* configured intervals range over 1..MaxMinutes
MaxTimers == 2            \* setTimeout handles handed out per session
MaxFlows == 2             \* check-in flows that may be in flight at once
MaxFileEntries == 2       \* entries of a changed-files list

\* ------------------------------------------------- constants of the program
TickPeriodMs == 10000     \* period of the idle poll
MsPerMinute == 60000      \* 60 * 1000
MsPerSecond == 1000
DefaultBaseMs == 900000   \* 15 * 60 * 1000
DefaultMaxMs == 3600000   \* 60 * 60 * 1000
DefaultIdleMs == 180000   \* 3 * 60 * 1000
Null == -1                \* pingScheduledAt: null
NoTimer == 0              \* pingTimeout: undefined

BlockerTypes == {"none", "waiting_for_person", "waiting_for_process", "other"}
WaitingTypes == {"waiting_for_person", "waiting_for_process"}

IdleSeconds == {10, 20}
Configs == [enabled : BOOLEAN, baseIntervalMinutes : 1..MaxMinutes,
            maxIntervalMinutes : 1..MaxMinutes, idleThresholdSeconds : IdleSeconds]
OrderedConfigs == {c \in Configs : c.baseIntervalMinutes <= c.maxIntervalMinutes}

FileLists == {<<>>, <<"a.ts">>}
NoSnapshot == [present |-> FALSE, changedFiles |-> <<>>]
Files == {"a.ts", "b.ts", "c.ts"}
\* the lists a change-set provider can return and a stored snapshot can hold
SnapshotLists == UNION {[1..n -> Files] : n \in 0..MaxFileEntries}
StoredSnapshots ==
  {NoSnapshot} \cup {[present |-> TRUE, changedFiles |-> l] : l \in SnapshotLists}
NoChoice == ""            \* showQuickPick resolved with undefined

VARIABLES now,                   \* Date.now()
          config,                \* the workspace configuration section
          gitChangedFiles,       \* what the change-set provider reports
          sessionState,          \* TaskNudgeExtension.sessionState
          pingTimeout,           \* TaskNudgeExtension.pingTimeout
          activityCheckInterval, \* TRUE while the idle poll is installed
          listening,             \* TRUE while the event listeners are installed
          timers,                \* the host's pending one-shot timers
          nextHandle,            \* handles handed out so far
          cancelled,             \* the timers cancelScheduledPing was applied to
          workspaceState,        \* the persisted key-value storage
          flows,                 \* the bag of check-in flows in flight
          disableRequestedAt     \* when the user last chose 'Отключить на час'

vars == <<now, config, gitChangedFiles, sessionState, pingTimeout,
          activityCheckInterval, listening, timers, nextHandle, cancelled,
          workspaceState, flows, disableRequestedAt>>

Min(a, b) == IF a <= b THEN a ELSE b

\* a || b of JavaScript on numbers and strings: 0 and "" are falsy
OrNum(a, b) == IF a # 0 THEN a ELSE b
OrStr(a, b) == IF a # "" THEN a ELSE b

\* ------------------------------------------------------------ StateManager
\* An absent field of the stored record is held as its falsy value.
EmptyStored == [blockerType |-> "", isWaiting |-> FALSE, baseIntervalMs |-> 0,
                currentIntervalMs |-> 0, maxIntervalMs |-> 0, idleThresholdMs |-> 0]

\* the records a workspace can hold before this version first runs: any
\* field may be absent
PartialStored ==
  [blockerType : {"", "waiting_for_person"},
   isWaiting : BOOLEAN,
   baseIntervalMs : {0, MsPerMinute},
   currentIntervalMs : {0, 2 * MsPerMinute},
   maxIntervalMs : {0, MaxMinutes * MsPerMinute},
   idleThresholdMs : {0, 10 * MsPerSecond}]

\* variant: a missing blockerType is not defaulted
loadState_NoDefaultType(stored, t) ==
  [blockerType |-> stored.blockerType,
   isWaiting |-> stored.isWaiting,
   baseIntervalMs |-> OrNum(stored.baseIntervalMs, DefaultBaseMs),
   currentIntervalMs |-> OrNum(stored.currentIntervalMs, DefaultBaseMs),
   maxIntervalMs |-> OrNum(stored.maxIntervalMs, DefaultMaxMs),
   idleThresholdMs |-> OrNum(stored.idleThresholdMs, DefaultIdleMs),
   lastActivityAt |-> t,
   pingScheduledAt |-> Null]

loadState(stored, t) ==
  [blockerType |-> OrStr(stored.blockerType, "none"),
   isWaiting |-> stored.isWaiting,
   baseIntervalMs |-> OrNum(stored.baseIntervalMs, DefaultBaseMs),
   currentIntervalMs |-> OrNum(stored.currentIntervalMs, DefaultBaseMs),
   maxIntervalMs |-> OrNum(stored.maxIntervalMs, DefaultMaxMs),
   idleThresholdMs |-> OrNum(stored.idleThresholdMs, DefaultIdleMs),
   lastActivityAt |-> t,
   pingScheduledAt |-> Null]

\* variant: the record is written without the waiting flag
saveState_DropsWaiting(state) ==
  [blockerType |-> state.blockerType,
   isWaiting |-> FALSE,
   baseIntervalMs |-> state.baseIntervalMs,
   currentIntervalMs |-> state.currentIntervalMs,
   maxIntervalMs |-> state.maxIntervalMs,
   idleThresholdMs |-> state.idleThresholdMs]

saveState(state) ==
  [blockerType |-> state.blockerType,
   isWaiting |-> state.isWaiting,
   baseIntervalMs |-> state.baseIntervalMs,
   currentIntervalMs |-> state.currentIntervalMs,
   maxIntervalMs |-> state.maxIntervalMs,
   idleThresholdMs |-> state.idleThresholdMs]

\* variant: the step-up is applied on every waiting report
updateStateFromDialog_Compounding(state, blockerType) ==
  LET s1 == [state EXCEPT !.blockerType = blockerType]
  IN IF blockerType \in WaitingTypes
       THEN [s1 EXCEPT !.currentIntervalMs =
                          Min(state.currentIntervalMs + state.baseIntervalMs,
                              state.maxIntervalMs),
                       !.isWaiting = TRUE]
       ELSE [s1 EXCEPT !.currentIntervalMs = state.baseIntervalMs,
                       !.isWaiting = FALSE]

\* variant: leaving the waiting state keeps the backed-off interval
updateStateFromDialog_NoReset(state, blockerType) ==
  LET s1 == [state EXCEPT !.blockerType = blockerType]
  IN IF blockerType \in WaitingTypes
       THEN IF ~state.isWaiting
              THEN [s1 EXCEPT !.currentIntervalMs =
                                 Min(state.currentIntervalMs + state.baseIntervalMs,
                                     state.maxIntervalMs),
                              !.isWaiting = TRUE]
              ELSE s1
       ELSE [s1 EXCEPT !.isWaiting = FALSE]

\* variant: only a report of none leaves the waiting state
updateStateFromDialog_OtherKeepsWaiting(state, blockerType) ==
  LET s1 == [state EXCEPT !.blockerType = blockerType]
  IN IF blockerType \in WaitingTypes
       THEN IF ~state.isWaiting
              THEN [s1 EXCEPT !.currentIntervalMs =
                                 Min(state.currentIntervalMs + state.baseIntervalMs,
                                     state.maxIntervalMs),
                              !.isWaiting = TRUE]
              ELSE s1
       ELSE IF blockerType = "none"
              THEN [s1 EXCEPT !.currentIntervalMs = state.baseIntervalMs,
                              !.isWaiting = FALSE]
              ELSE [s1 EXCEPT !.currentIntervalMs = state.baseIntervalMs]

\* variant: entering a waiting episode adds two base intervals
updateStateFromDialog_DoubleStep(state, blockerType) ==
  LET wasWaiting == state.isWaiting
      s1 == [state EXCEPT !.blockerType = blockerType]
  IN IF blockerType \in WaitingTypes
       THEN IF ~wasWaiting
              THEN [s1 EXCEPT !.currentIntervalMs =
                                 Min(state.currentIntervalMs + 2 * state.baseIntervalMs,
                                     state.maxIntervalMs),
                              !.isWaiting = TRUE]
              ELSE s1
       ELSE [s1 EXCEPT !.currentIntervalMs = state.baseIntervalMs,
                       !.isWaiting = FALSE]

updateStateFromDialog(state, blockerType) ==
  LET wasWaiting == state.isWaiting
      s1 == [state EXCEPT !.blockerType = blockerType]
  IN IF blockerType \in WaitingTypes
       THEN IF ~wasWaiting
              THEN [s1 EXCEPT !.currentIntervalMs =
                                 Min(state.currentIntervalMs + state.baseIntervalMs,
                                     state.maxIntervalMs),
                              !.isWaiting = TRUE]
              ELSE s1
       ELSE [s1 EXCEPT !.currentIntervalMs = state.baseIntervalMs,
                       !.isWaiting = FALSE]

\* variant: the final clamp to the new maximum is missing
updateIntervalsFromConfig_NoClamp(state, baseMinutes, maxMinutes, idleSeconds) ==
  LET newBaseMs == baseMinutes * MsPerMinute
      cur0 == IF ~state.isWaiting /\ state.baseIntervalMs # newBaseMs
                THEN newBaseMs ELSE state.currentIntervalMs
  IN [state EXCEPT !.baseIntervalMs = newBaseMs,
                   !.maxIntervalMs = maxMinutes * MsPerMinute,
                   !.idleThresholdMs = idleSeconds * MsPerSecond,
                   !.currentIntervalMs = cur0]

\* variant: a changed base resets the interval also while waiting
updateIntervalsFromConfig_ResetWhileWaiting(state, baseMinutes, maxMinutes, idleSeconds) ==
  LET newBaseMs == baseMinutes * MsPerMinute
      newMaxMs == maxMinutes * MsPerMinute
      cur0 == IF state.baseIntervalMs # newBaseMs
                THEN newBaseMs ELSE state.currentIntervalMs
  IN [state EXCEPT !.baseIntervalMs = newBaseMs,
                   !.maxIntervalMs = newMaxMs,
                   !.idleThresholdMs = idleSeconds * MsPerSecond,
                   !.currentIntervalMs = Min(cur0, newMaxMs)]

\* variant: a new base interval is not taken over outside a waiting episode
updateIntervalsFromConfig_KeepsCurrent(state, baseMinutes, maxMinutes, idleSeconds) ==
  LET newMaxMs == maxMinutes * MsPerMinute
  IN [state EXCEPT !.baseIntervalMs = baseMinutes * MsPerMinute,
                   !.maxIntervalMs = newMaxMs,
                   !.idleThresholdMs = idleSeconds * MsPerSecond,
                   !.currentIntervalMs = Min(state.currentIntervalMs, newMaxMs)]

updateIntervalsFromConfig(state, baseMinutes, maxMinutes, idleSeconds) ==
  LET newBaseMs == baseMinutes * MsPerMinute
      newMaxMs == maxMinutes * MsPerMinute
      newIdleMs == idleSeconds * MsPerSecond
      cur == IF ~state.isWaiting /\ state.baseIntervalMs # newBaseMs
               THEN newBaseMs ELSE state.currentIntervalMs
  IN [state EXCEPT !.baseIntervalMs = newBaseMs,
                   !.maxIntervalMs = newMaxMs,
                   !.idleThresholdMs = newIdleMs,
                   !.currentIntervalMs = Min(cur, newMaxMs)]

\* ------------------------------------------------- GitSnapshotManager
Range(q) == {q[i] : i \in 1..Len(q)}

\* the order of the default Array.prototype.sort on the file names used
FileRank(f) == CASE f = "a.ts" -> 1 [] f = "b.ts" -> 2 [] OTHER -> 3

RECURSIVE Insert(_, _)
Insert(x, q) ==
  IF q = <<>> THEN <<x>>
  ELSE IF FileRank(x) <= FileRank(Head(q)) THEN <<x>> \o q
  ELSE <<Head(q)>> \o Insert(x, Tail(q))

RECURSIVE Sorted(_)
Sorted(q) == IF q = <<>> THEN <<>> ELSE Insert(Head(q), Sorted(Tail(q)))

arraysEqual(a, b) ==
  IF Len(a) # Len(b) THEN FALSE
  ELSE LET sortedA == Sorted(a)
           sortedB == Sorted(b)
       IN \A index \in 1..Len(sortedA) : sortedA[index] = sortedB[index]

\* variant: the failure of the provider is rethrown
getChangedFiles_Propagates(provider) ==
  [threw |-> ~provider.ok,
   value |-> IF provider.ok THEN provider.files ELSE <<>>]

\* GitManager.getChangedFiles: a failure of the provider is caught and an
\* empty list returned.  The result says whether the call threw.
getChangedFiles(provider) ==
  [threw |-> FALSE,
   value |-> IF provider.ok THEN provider.files ELSE <<>>]

\* getCurrentSnapshot; timestamp and summary play no part in the comparison
getCurrentSnapshot(provider) ==
  LET r == getChangedFiles(provider)
  IN [threw |-> r.threw, changedFiles |-> r.value]

\* variant: a first run always reports changes
compareWithLast_FirstRunChanged(lastSnapshot, currentFiles) ==
  IF ~lastSnapshot.present
    THEN [hasChanges |-> TRUE,
          newFiles |-> currentFiles,
          changedFilesSinceLastPing |-> <<>>,
          isStuck |-> FALSE,
          description |-> "summary"]
    ELSE LET lastFiles == Range(lastSnapshot.changedFiles)
             newFiles == SelectSeq(currentFiles, LAMBDA file : file \notin lastFiles)
             isStuck == arraysEqual(lastSnapshot.changedFiles, currentFiles)
         IN [hasChanges |-> Len(currentFiles) > 0,
             newFiles |-> newFiles,
             changedFilesSinceLastPing |-> newFiles,
             isStuck |-> isStuck,
             description |->
               IF isStuck /\ Len(currentFiles) = 0 THEN "no_changes_since_last"
               ELSE IF isStuck /\ Len(currentFiles) > 0 THEN "same_files"
               ELSE IF Len(newFiles) > 0 THEN "new_changes"
               ELSE "summary"]

\* variant: every current file counts as new
compareWithLast_AllNew(lastSnapshot, currentFiles) ==
  IF ~lastSnapshot.present
    THEN [hasChanges |-> Len(currentFiles) > 0,
          newFiles |-> currentFiles,
          changedFilesSinceLastPing |-> <<>>,
          isStuck |-> FALSE,
          description |-> "summary"]
    ELSE LET lastFiles == Range(lastSnapshot.changedFiles)
             newFiles == currentFiles
             isStuck == arraysEqual(lastSnapshot.changedFiles, currentFiles)
         IN [hasChanges |-> Len(currentFiles) > 0,
             newFiles |-> newFiles,
             changedFilesSinceLastPing |-> newFiles,
             isStuck |-> isStuck,
             description |->
               IF isStuck /\ Len(currentFiles) = 0 THEN "no_changes_since_last"
               ELSE IF isStuck /\ Len(currentFiles) > 0 THEN "same_files"
               ELSE IF Len(newFiles) > 0 THEN "new_changes"
               ELSE "summary"]

\* compareWithLast; description is the branch that builds the text
compareWithLast(lastSnapshot, currentFiles) ==
  IF ~lastSnapshot.present
    THEN [hasChanges |-> Len(currentFiles) > 0,
          newFiles |-> currentFiles,
          changedFilesSinceLastPing |-> <<>>,
          isStuck |-> FALSE,
          description |-> "summary"]
    ELSE LET lastFiles == Range(lastSnapshot.changedFiles)
             newFiles == SelectSeq(currentFiles, LAMBDA file : file \notin lastFiles)
             isStuck == arraysEqual(lastSnapshot.changedFiles, currentFiles)
         IN [hasChanges |-> Len(currentFiles) > 0,
             newFiles |-> newFiles,
             changedFilesSinceLastPing |-> newFiles,
             isStuck |-> isStuck,
             description |->
               IF isStuck /\ Len(currentFiles) = 0 THEN "no_changes_since_last"
               ELSE IF isStuck /\ Len(currentFiles) > 0 THEN "same_files"
               ELSE IF Len(newFiles) > 0 THEN "new_changes"
               ELSE "summary"]

\* --------------------------------------------------------- DialogManager
\* determineBlockerType: blockerChoice?.blockerType || 'none'
determineBlockerType(choice) == OrStr(choice, "none")

\* ------------------------------------------------------ TaskNudgeExtension
\* The handlers are functions of the extension record e: the instance's
\* fields together with the host state they act on.  The record carries the
\* clock only for the note cancelScheduledPing leaves in e.cancelled: the
\* handle it cleared and whether that timer was already due.
Ext == [now |-> now, sessionState |-> sessionState, pingTimeout |-> pingTimeout,
        activityCheckInterval |-> activityCheckInterval, listening |-> listening,
        timers |-> timers, nextHandle |-> nextHandle, cancelled |-> cancelled,
        workspaceState |-> workspaceState, flows |-> flows]

Commit(e) ==
  /\ sessionState' = e.sessionState
  /\ pingTimeout' = e.pingTimeout
  /\ activityCheckInterval' = e.activityCheckInterval
  /\ listening' = e.listening
  /\ timers' = e.timers
  /\ nextHandle' = e.nextHandle
  /\ cancelled' = e.cancelled
  /\ workspaceState' = e.workspaceState
  /\ flows' = e.flows

\* clearTimeout / setTimeout of the host
clearTimeout(ts, h) == {t \in ts : t.id # h}
setTimeout(ts, h, due) == ts \cup {[id |-> h, due |-> due]}

\* variant: the configuration is applied in memory only
updateFromConfig_NoSave(e, c) ==
  LET s == updateIntervalsFromConfig(e.sessionState, c.baseIntervalMinutes,
                                     c.maxIntervalMinutes, c.idleThresholdSeconds)
  IN [e EXCEPT !.sessionState = s]

\* variant: a configuration change cancels the armed ping
updateFromConfig_CancelsPing(e, c) ==
  LET s == updateIntervalsFromConfig(e.sessionState, c.baseIntervalMinutes,
                                     c.maxIntervalMinutes, c.idleThresholdSeconds)
      d == [e EXCEPT !.sessionState = s,
                     !.workspaceState.sessionState = saveState(s)]
  IN IF d.pingTimeout # NoTimer
       THEN [d EXCEPT !.cancelled = @ \cup {[id |-> t.id, overdue |-> t.due <= d.now] :
                                               t \in {u \in d.timers : u.id = d.pingTimeout}},
                      !.timers = clearTimeout(@, d.pingTimeout),
                      !.pingTimeout = NoTimer,
                      !.sessionState.pingScheduledAt = Null]
       ELSE d

updateFromConfig(e, c) ==
  LET s == updateIntervalsFromConfig(e.sessionState, c.baseIntervalMinutes,
                                     c.maxIntervalMinutes, c.idleThresholdSeconds)
  IN [e EXCEPT !.sessionState = s,
               !.workspaceState.sessionState = saveState(s)]

\* variant: the handle is dropped without clearTimeout
cancelScheduledPing_NoClear(e) ==
  IF e.pingTimeout # NoTimer
    THEN [e EXCEPT !.cancelled = @ \cup {[id |-> t.id, overdue |-> t.due <= e.now] :
                                            t \in {u \in e.timers : u.id = e.pingTimeout}},
                   !.pingTimeout = NoTimer,
                   !.sessionState.pingScheduledAt = Null]
    ELSE e

\* variant: pingScheduledAt survives the cancellation
cancelScheduledPing_KeepsScheduledAt(e) ==
  IF e.pingTimeout # NoTimer
    THEN [e EXCEPT !.timers = clearTimeout(@, e.pingTimeout),
                   !.cancelled = @ \cup {[id |-> t.id, overdue |-> t.due <= e.now] :
                                            t \in {u \in e.timers : u.id = e.pingTimeout}},
                   !.pingTimeout = NoTimer]
    ELSE e

cancelScheduledPing(e) ==
  IF e.pingTimeout # NoTimer
    THEN [e EXCEPT !.timers = clearTimeout(@, e.pingTimeout),
                   !.cancelled = @ \cup {[id |-> t.id, overdue |-> t.due <= e.now] :
                                            t \in {u \in e.timers : u.id = e.pingTimeout}},
                   !.pingTimeout = NoTimer,
                   !.sessionState.pingScheduledAt = Null]
    ELSE e

\* variant: the timestamp is updated and the armed ping is left alone
updateActivity_NoCancel(e, t) ==
  [e EXCEPT !.sessionState.lastActivityAt = t]

\* variant: activity also ends the waiting state
updateActivity_ResetsWaiting(e, t) ==
  cancelScheduledPing([e EXCEPT !.sessionState.lastActivityAt = t,
                                !.sessionState.isWaiting = FALSE])

updateActivity(e, t) ==
  cancelScheduledPing([e EXCEPT !.sessionState.lastActivityAt = t])

\* variant: the timer runs for baseIntervalMs
schedulePing_BaseInterval(e, t) ==
  LET h == e.nextHandle + 1
  IN [e EXCEPT !.sessionState.pingScheduledAt = t + e.sessionState.currentIntervalMs,
               !.timers = setTimeout(@, h, t + e.sessionState.baseIntervalMs),
               !.pingTimeout = h,
               !.nextHandle = h]

\* variant: the callback is registered twice and the second handle kept
schedulePing_Twice(e, t) ==
  LET h == e.nextHandle + 1
      due == t + e.sessionState.currentIntervalMs
  IN [e EXCEPT !.sessionState.pingScheduledAt = due,
               !.timers = setTimeout(setTimeout(@, h, due), h + 1, due),
               !.pingTimeout = h + 1,
               !.nextHandle = h + 1]

\* variant: the handle is recorded but no callback is registered
schedulePing_NoCallback(e, t) ==
  LET h == e.nextHandle + 1
  IN [e EXCEPT !.sessionState.pingScheduledAt = t + e.sessionState.currentIntervalMs,
               !.pingTimeout = h,
               !.nextHandle = h]

schedulePing(e, t) ==
  LET h == e.nextHandle + 1
  IN [e EXCEPT !.sessionState.pingScheduledAt = t + e.sessionState.currentIntervalMs,
               !.timers = setTimeout(@, h, t + e.sessionState.currentIntervalMs),
               !.pingTimeout = h,
               !.nextHandle = h]

\* variant: the poll does not read the enabled setting
checkForIdlePeriod_IgnoreEnabled(e, c, t) ==
  IF t - e.sessionState.lastActivityAt >= e.sessionState.idleThresholdMs
     /\ e.pingTimeout = NoTimer
    THEN schedulePing(e, t)
    ELSE e

\* variant: the poll does not look at the pending handle
checkForIdlePeriod_Rearm(e, c, t) ==
  IF ~c.enabled THEN e
  ELSE IF t - e.sessionState.lastActivityAt >= e.sessionState.idleThresholdMs
         THEN schedulePing(e, t)
         ELSE e

\* variant: the poll arms without an idle test
checkForIdlePeriod_NoIdleTest(e, c, t) ==
  IF ~c.enabled THEN e
  ELSE IF e.pingTimeout = NoTimer
         THEN schedulePing(e, t)
         ELSE e

checkForIdlePeriod(e, c, t) ==
  IF ~c.enabled THEN e
  ELSE IF t - e.sessionState.lastActivityAt >= e.sessionState.idleThresholdMs
          /\ e.pingTimeout = NoTimer
         THEN schedulePing(e, t)
         ELSE e

\* ---- the check-in flow (showPing)
Flow1(f) == SetToBag({f})
InFlight(e) == BagCardinality(e.flows)

\* variant: the handle of the fired timer is kept
showPingBegin_KeepsHandle(e) ==
  [e EXCEPT !.sessionState.pingScheduledAt = Null,
            !.flows = @ (+) Flow1([pc |-> "compare"])]

\* variant: the firing counts as activity
showPingBegin_SeedsActivity(e) ==
  [e EXCEPT !.pingTimeout = NoTimer,
            !.sessionState.pingScheduledAt = Null,
            !.sessionState.lastActivityAt = e.now,
            !.flows = @ (+) Flow1([pc |-> "compare"])]

\* showPing up to its first await: the timer fields are cleared and the
\* comparison with the last snapshot is started
showPingBegin(e) ==
  [e EXCEPT !.pingTimeout = NoTimer,
            !.sessionState.pingScheduledAt = Null,
            !.flows = @ (+) Flow1([pc |-> "compare"])]

\* variant: the armed timer is left pending
triggerPingNow_NoCancel(e) == showPingBegin(e)

triggerPingNow(e) == showPingBegin(cancelScheduledPing(e))

\* the dialog returned a result: the state is updated and its save requested
showPingResult(e, f, blockerType) ==
  LET s == updateStateFromDialog(e.sessionState, blockerType)
  IN [e EXCEPT !.sessionState = s,
               !.workspaceState.sessionState = saveState(s),
               !.flows = (@ (-) Flow1(f)) (+) Flow1([pc |-> "save", captured |-> f.captured])]

\* saveCurrentSnapshot: the snapshot taken now replaces the stored one
saveCurrentSnapshot(e, files) ==
  [e EXCEPT !.workspaceState.lastGitSnapshot =
              [present |-> TRUE, changedFiles |-> files]]

\* variant: the idle poll is left running
dispose_KeepsPoll(e) ==
  [cancelScheduledPing(e) EXCEPT !.listening = FALSE]

dispose(e) ==
  [cancelScheduledPing(e) EXCEPT !.activityCheckInterval = FALSE,
                                 !.listening = FALSE]

\* new TaskNudgeExtension(context): loadState, then initialize()
construct(ws, c, t) ==
  updateFromConfig(
    [now |-> t,
     sessionState |-> loadState(ws.sessionState, t),
     pingTimeout |-> NoTimer,
     activityCheckInterval |-> TRUE,
     listening |-> TRUE,
     timers |-> {},
     nextHandle |-> 0,
     cancelled |-> {},
     workspaceState |-> ws,
     flows |-> EmptyBag], c)

\* ------------------------------------------------------------------ Init
\* activate() in a workspace whose storage is one of WS, under a
\* configuration of CS, the working tree showing one of the lists FS
InitWith(CS, FS, WS) ==
  /\ now = 0
  /\ config \in CS
  /\ gitChangedFiles \in FS
  /\ \E ws \in WS :
     LET e == construct(ws, config, now)
     IN /\ sessionState = e.sessionState
        /\ pingTimeout = e.pingTimeout
        /\ activityCheckInterval = e.activityCheckInterval
        /\ listening = e.listening
        /\ timers = e.timers
        /\ nextHandle = e.nextHandle
        /\ cancelled = e.cancelled
        /\ workspaceState = e.workspaceState
        /\ flows = e.flows
  /\ disableRequestedAt = Null

InitFor(CS) ==
  InitWith(CS, {<<>>}, {[sessionState |-> EmptyStored, lastGitSnapshot |-> NoSnapshot]})

\* --------------------------------------------------------------- actions
Env == <<now, config, gitChangedFiles, disableRequestedAt>>

\* the clock advances
Advance ==
  /\ now + TickPeriodMs <= MaxTicks * TickPeriodMs
  /\ now' = now + TickPeriodMs
  /\ UNCHANGED <<disableRequestedAt, config, gitChangedFiles, sessionState, pingTimeout,
                 activityCheckInterval, listening, timers, nextHandle, cancelled,
                 workspaceState, flows>>

\* an editor event reaches one of the activity listeners
UpdateActivity ==
  /\ listening
  /\ Commit(updateActivity(Ext, now))
  /\ UNCHANGED Env

\* the idle poll runs
Tick ==
  /\ activityCheckInterval
  /\ nextHandle < MaxTimers
  /\ Commit(checkForIdlePeriod(Ext, config, now))
  /\ UNCHANGED Env

\* the pending timer h expires and its callback starts showPing
TimerFire(h) ==
  /\ \E t \in timers : t.id = h /\ t.due <= now
  /\ InFlight(Ext) < MaxFlows
  /\ Commit(showPingBegin([Ext EXCEPT !.timers = clearTimeout(@, h)]))
  /\ UNCHANGED Env

\* the task-nudge.checkNow command
TriggerPingNow ==
  /\ listening
  /\ InFlight(Ext) < MaxFlows
  /\ Commit(triggerPingNow(Ext))
  /\ UNCHANGED Env

EndFlow(f) == flows' = flows (-) Flow1(f)

Provider(ok) == [ok |-> ok, files |-> gitChangedFiles]

\* compareWithLast resolved, the provider having answered (ok) or failed:
\* the dialog opens with the analysis.  The flow keeps, for reference, the
\* changedFiles of the snapshot that compareWithLast captured and compared.
CompareDone(f, ok) ==
  /\ f.pc = "compare"
  /\ LET snap == getCurrentSnapshot(Provider(ok))
     IN IF snap.threw
          THEN EndFlow(f)
          ELSE flows' = (flows (-) Flow1(f)) (+)
                        Flow1([pc |-> "dialog",
                               analysis |-> compareWithLast(workspaceState.lastGitSnapshot,
                                                            snap.changedFiles),
                               captured |-> snap.changedFiles])
  /\ UNCHANGED <<disableRequestedAt, now, config, gitChangedFiles, sessionState, pingTimeout,
                 activityCheckInterval, listening, timers, nextHandle, cancelled,
                 workspaceState>>

\* the user went through the dialog and the picker gave blockerType b
DialogCompleted(f, b) ==
  /\ f.pc = "dialog"
  /\ Commit(showPingResult(Ext, f, b))
  /\ UNCHANGED Env

\* the user answered the questions and dismissed the blocker-type picker
PickerDismissed(f) ==
  /\ f.pc = "dialog"
  /\ Commit(showPingResult(Ext, f, determineBlockerType(NoChoice)))
  /\ UNCHANGED Env

\* the user declined or dismissed the confirmation or dismissed a question:
\* showPingDialog returned undefined
DialogCancelled(f) ==
  /\ f.pc = "dialog"
  /\ EndFlow(f)
  /\ UNCHANGED <<disableRequestedAt, now, config, gitChangedFiles, sessionState, pingTimeout,
                 activityCheckInterval, listening, timers, nextHandle, cancelled,
                 workspaceState>>

\* the user answered the confirmation with 'Отключить на час': the response
\* is not 'Да, отвечу' and showPingDialog returned undefined
DialogDisabledForHour(f) ==
  /\ f.pc = "dialog"
  /\ EndFlow(f)
  /\ disableRequestedAt' = now
  /\ UNCHANGED <<now, config, gitChangedFiles, sessionState, pingTimeout,
                 activityCheckInterval, listening, timers, nextHandle, cancelled,
                 workspaceState>>

\* showPingDialog rejected: the catch block reports it and the flow ends
DialogFailed(f) ==
  /\ f.pc = "dialog"
  /\ EndFlow(f)
  /\ UNCHANGED <<disableRequestedAt, now, config, gitChangedFiles, sessionState, pingTimeout,
                 activityCheckInterval, listening, timers, nextHandle, cancelled,
                 workspaceState>>

\* the dialog returned b, the state was updated in memory and the write of
\* the session record was rejected: the catch block ends the flow
SaveStateFailed(f, b) ==
  /\ f.pc = "dialog"
  /\ sessionState' = updateStateFromDialog(sessionState, b)
  /\ EndFlow(f)
  /\ UNCHANGED <<disableRequestedAt, now, config, gitChangedFiles, pingTimeout,
                 activityCheckInterval, listening, timers, nextHandle, cancelled,
                 workspaceState>>

\* saveState resolved and saveCurrentSnapshot ran: the flow ends
SaveSnapshotDone(f, ok) ==
  /\ f.pc = "save"
  /\ LET snap == getCurrentSnapshot(Provider(ok))
     IN IF snap.threw
          THEN Commit([Ext EXCEPT !.flows = @ (-) Flow1(f)])
          ELSE Commit([saveCurrentSnapshot(Ext, snap.changedFiles)
                         EXCEPT !.flows = @ (-) Flow1(f)])
  /\ UNCHANGED Env

\* the write of the snapshot was rejected: the catch block ends the flow
SaveSnapshotFailed(f) ==
  /\ f.pc = "save"
  /\ EndFlow(f)
  /\ UNCHANGED <<disableRequestedAt, now, config, gitChangedFiles, sessionState, pingTimeout,
                 activityCheckInterval, listening, timers, nextHandle, cancelled,
                 workspaceState>>

\* the user edits the settings; onDidChangeConfiguration runs updateFromConfig
ConfigChange(CS) ==
  /\ listening
  /\ \E c \in CS :
       /\ c # config
       /\ config' = c
       /\ Commit(updateFromConfig(Ext, c))
  /\ UNCHANGED <<now, gitChangedFiles, disableRequestedAt>>

\* deactivate()
Dispose ==
  /\ listening
  /\ Commit(dispose(Ext))
  /\ UNCHANGED Env

\* the window reloads: the extension host restarts and activate() builds a
\* new instance from the persisted storage
Restart ==
  /\ Commit(construct(workspaceState, config, now))
  /\ UNCHANGED Env

\* the working tree changes
EditWorkspace ==
  /\ \E f \in FileLists : f # gitChangedFiles /\ gitChangedFiles' = f
  /\ UNCHANGED <<disableRequestedAt, now, config, sessionState, pingTimeout,
                 activityCheckInterval, listening, timers, nextHandle, cancelled,
                 workspaceState, flows>>

Flow ==
  \E f \in BagToSet(flows) :
    \/ \E ok \in BOOLEAN : CompareDone(f, ok)
    \/ DialogCancelled(f)
    \/ PickerDismissed(f)
    \/ \E ok \in BOOLEAN : SaveSnapshotDone(f, ok)
    \/ \E b \in BlockerTypes : DialogCompleted(f, b)

\* the steps of a check-in flow that end it in the catch block
FlowFailure ==
  \E f \in BagToSet(flows) :
    \/ DialogFailed(f)
    \/ SaveSnapshotFailed(f)
    \/ \E b \in BlockerTypes : SaveStateFailed(f, b)

\* The scheduler: clock, activity, idle poll, timer, manual trigger, check-in
\* flow, deactivation and reload, with the settings that the scheduler reads
\* (enabled, idle threshold, maximum) changing under it.
SchedulerConfigs ==
  {c \in Configs : c.baseIntervalMinutes = 1 /\ c.maxIntervalMinutes = MaxMinutes}

Init == InitFor(SchedulerConfigs)

Next ==
  \/ Advance
  \/ UpdateActivity
  \/ Tick
  \/ \E h \in 1..MaxTimers : TimerFire(h)
  \/ TriggerPingNow
  \/ Flow
  \/ Dispose
  \/ Restart
  \/ ConfigChange(SchedulerConfigs)

Spec == Init /\ [][Next]_vars

\* The scheduler under one configuration, with a check-in flow that can be
\* aborted by an error of the dialog or of the persistence steps.
InitFailure == InitFor(SchedulerConfigs)

NextFailure ==
  \/ Advance
  \/ Tick
  \/ \E h \in 1..MaxTimers : TimerFire(h)
  \/ TriggerPingNow
  \/ Flow
  \/ FlowFailure

SpecFailure == InitFailure /\ [][NextFailure]_vars

\* The comparison with the last snapshot: every stored snapshot and every
\* list of the provider, the working tree changing, flows started by the
\* command and taken to the dialog.
Compare ==
  \E f \in BagToSet(flows) :
    \/ \E ok \in BOOLEAN : CompareDone(f, ok)
    \/ DialogCancelled(f)

CompareConfigs ==
  {c \in SchedulerConfigs : c.enabled /\ c.idleThresholdSeconds = 10}

InitCompare ==
  InitWith(CompareConfigs, SnapshotLists,
           {[sessionState |-> EmptyStored, lastGitSnapshot |-> l] : l \in StoredSnapshots})

NextCompare ==
  \/ TriggerPingNow
  \/ Compare
  \/ EditWorkspace

SpecCompare == InitCompare /\ [][NextCompare]_vars

\* Activation over a stored record that lacks fields.  Before activate() no
\* instance exists: nothing is registered or pending, and sessionState is not
\* read until the constructor replaces it.
InitLoad ==
  /\ now = 0
  /\ config \in SchedulerConfigs
  /\ gitChangedFiles = <<>>
  /\ workspaceState \in {[sessionState |-> p, lastGitSnapshot |-> NoSnapshot] :
                            p \in PartialStored}
  /\ sessionState = loadState(EmptyStored, now)
  /\ pingTimeout = NoTimer
  /\ activityCheckInterval = FALSE
  /\ listening = FALSE
  /\ timers = {}
  /\ nextHandle = 0
  /\ cancelled = {}
  /\ flows = EmptyBag
  /\ disableRequestedAt = Null

NextLoad ==
  \/ Restart
  \/ ConfigChange(SchedulerConfigs)

SpecLoad == InitLoad /\ [][NextLoad]_vars

\* The user who asks for an hour without pings and then stays idle.
Disable ==
  \E f \in BagToSet(flows) :
    \/ \E ok \in BOOLEAN : CompareDone(f, ok)
    \/ DialogDisabledForHour(f)

InitDisable == InitFor(CompareConfigs)

NextDisable ==
  \/ Advance
  \/ Tick
  \/ \E h \in 1..MaxTimers : TimerFire(h)
  \/ TriggerPingNow
  \/ Disable

SpecDisable == InitDisable /\ [][NextDisable]_vars

\* Sessions in which the user cancels every check-in, at the confirmation,
\* at a question or at the blocker-type picker.
Cancel ==
  \E f \in BagToSet(flows) :
    \/ \E ok \in BOOLEAN : CompareDone(f, ok)
    \/ DialogCancelled(f)
    \/ PickerDismissed(f)
    \/ \E ok \in BOOLEAN : SaveSnapshotDone(f, ok)

InitCancel == InitFor(SchedulerConfigs)

NextCancel ==
  \/ TriggerPingNow
  \/ Cancel
  \/ EditWorkspace
  \/ ConfigChange(SchedulerConfigs)

SpecCancel == InitCancel /\ [][NextCancel]_vars

\* Check-ins over a working tree that changes while the dialog is open; the
\* change-set provider never fails.
Snapshot ==
  \E f \in BagToSet(flows) :
    \/ CompareDone(f, TRUE)
    \/ DialogCancelled(f)
    \/ SaveSnapshotDone(f, TRUE)
    \/ \E b \in BlockerTypes : DialogCompleted(f, b)

InitSnapshot ==
  InitWith(CompareConfigs, FileLists,
           {[sessionState |-> EmptyStored, lastGitSnapshot |-> NoSnapshot]})

NextSnapshot ==
  \/ TriggerPingNow
  \/ Snapshot
  \/ EditWorkspace

SpecSnapshot == InitSnapshot /\ [][NextSnapshot]_vars

\* The idle user and the active one under one configuration: every ping is
\* timer-driven and every check-in is declined, so the idle threshold and
\* the interval a timer was armed with are those of the state it fires in.
Decline ==
  \E f \in BagToSet(flows) :
    \/ \E ok \in BOOLEAN : CompareDone(f, ok)
    \/ DialogCancelled(f)

InitIdle == InitFor(SchedulerConfigs)

NextIdle ==
  \/ Advance
  \/ UpdateActivity
  \/ Tick
  \/ \E h \in 1..MaxTimers : TimerFire(h)
  \/ Decline
  \/ Restart

SpecIdle == InitIdle /\ [][NextIdle]_vars

\* The settings edited under an idle user: every configuration, the poll,
\* the timer, and check-ins that are declined.
InitConfig == InitFor(Configs)

NextConfig ==
  \/ Advance
  \/ Tick
  \/ \E h \in 1..MaxTimers : TimerFire(h)
  \/ Decline
  \/ ConfigChange(Configs)

SpecConfig == InitConfig /\ [][NextConfig]_vars

\* The interval controller: every configuration, check-ins started by the
\* command, reloads; the clock stands still.
InitInterval == InitFor(Configs)

NextInterval ==
  \/ TriggerPingNow
  \/ Flow
  \/ Restart
  \/ ConfigChange(Configs)

SpecInterval == InitInterval /\ [][NextInterval]_vars

\* The same with every configuration ever applied having base <= max.
InitOrdered == InitFor(OrderedConfigs)

NextOrdered ==
  \/ TriggerPingNow
  \/ Flow
  \/ Restart
  \/ ConfigChange(OrderedConfigs)

SpecOrdered == InitOrdered /\ [][NextOrdered]_vars

\* The window reloaded under an idle user: the scheduler without activity
\* signals, deactivation and settings changes, so that lastActivityAt moves
\* only when a new instance loads the stored record.
InitRestart == InitFor(SchedulerConfigs)

NextRestart ==
  \/ Advance
  \/ Tick
  \/ \E h \in 1..MaxTimers : TimerFire(h)
  \/ TriggerPingNow
  \/ Flow
  \/ Restart

SpecRestart == InitRestart /\ [][NextRestart]_vars

\* One configuration with base <= max for the whole run and a fresh
\* workspace: only blocker reports move the interval.
InitReports == InitFor(OrderedConfigs)

NextReports ==
  \/ TriggerPingNow
  \/ Flow

SpecReports == InitReports /\ [][NextReports]_vars

\* The enabled feature over unbounded time. The code compares timestamps
\* with Date.now() only through differences, so the clock is kept at the
\* present and a poll period that passes moves every timestamp back by one
\* period: lastActivityAt down to the largest idle threshold behind the
\* present, a due time down to the present (the timer is then overdue).
\* Timer handles start over once no timer is pending.
LongestIdleMs == MsPerSecond * (CHOOSE m \in IdleSeconds : \A n \in IdleSeconds : n <= m)

Elapse ==
  /\ sessionState' =
       [sessionState EXCEPT
          !.lastActivityAt = IF @ - TickPeriodMs < now - LongestIdleMs
                               THEN now - LongestIdleMs ELSE @ - TickPeriodMs,
          !.pingScheduledAt = IF @ = Null THEN Null
                              ELSE IF @ - TickPeriodMs < now THEN now
                              ELSE @ - TickPeriodMs]
  /\ timers' = {[id |-> t.id,
                 due |-> IF t.due - TickPeriodMs < now THEN now
                         ELSE t.due - TickPeriodMs] : t \in timers}
  /\ nextHandle' = IF timers = {} /\ pingTimeout = NoTimer THEN 0 ELSE nextHandle
  /\ cancelled' = IF timers = {} /\ pingTimeout = NoTimer THEN {} ELSE cancelled
  /\ UNCHANGED <<disableRequestedAt, now, config, gitChangedFiles, pingTimeout,
                 activityCheckInterval, listening, workspaceState, flows>>

LiveConfigs == {c \in SchedulerConfigs : c.enabled}

InitLive == InitFor(LiveConfigs)

NextLive ==
  \/ Elapse
  \/ UpdateActivity
  \/ Tick
  \/ \E h \in 1..MaxTimers : TimerFire(h)
  \/ Flow

\* time passes, the setInterval poll and the setTimeout callback are run by
\* the host, and the user answers or dismisses every dialog
SpecLive ==
  /\ InitLive
  /\ [][NextLive]_vars
  /\ WF_vars(Elapse)
  /\ WF_vars(Tick)
  /\ WF_vars(\E h \in 1..MaxTimers : TimerFire(h))
  /\ WF_vars(Flow)

\* ================================================================ claims
cur == sessionState.currentIntervalMs
base == sessionState.baseIntervalMs
max == sessionState.maxIntervalMs
Armed == pingTimeout # NoTimer

IdleCondition ==
  /\ config.enabled
  /\ now - sessionState.lastActivityAt >= sessionState.idleThresholdMs
  /\ pingTimeout = NoTimer

\* a check-in completes in this step with blocker type b
Reported(b) == \E f \in BagToSet(flows) : DialogCompleted(f, b)

\* C1: an activity signal sets lastActivityAt to the time of the signal and,
\* in the same step, leaves no ping timer armed and pingScheduledAt null;
\* nothing but an activity signal (or a load of the state) writes
\* lastActivityAt, so it is the time of the most recent signal.
C1_ActivityWins ==
  [][/\ UpdateActivity =>
          /\ sessionState'.lastActivityAt = now
          /\ pingTimeout' = NoTimer
          /\ timers' = {}
          /\ sessionState'.pingScheduledAt = Null
     /\ sessionState'.lastActivityAt # sessionState.lastActivityAt =>
          UpdateActivity \/ Restart]_vars

C1_Witness ==
  /\ now > 0
  /\ sessionState.lastActivityAt = now
  /\ cancelled # {}
  /\ pingTimeout = NoTimer
  /\ flows = EmptyBag
  /\ ~workspaceState.lastGitSnapshot.present

\* C2: a timer that cancelScheduledPing was applied to (by an activity
\* signal, the manual trigger or dispose) never fires, also when it was
\* already due at the instant of the cancellation.
C2_CancelledNeverFires ==
  [][\A c \in cancelled : ~TimerFire(c.id)]_vars

C2_Witness ==
  \E c \in cancelled :
    /\ c.overdue
    /\ sessionState.lastActivityAt = now
    /\ timers = {}

\* C3: with base <= max in every configuration, a completed check-in that
\* reports an external wait raises currentIntervalMs to
\* min(current + base, max) when isWaiting was false and leaves it
\* unchanged when isWaiting was already true; isWaiting stays true until a
\* non-waiting report, so a run of waiting reports raises the interval
\* once; currentIntervalMs never exceeds maxIntervalMs.
C3_SingleStepUp ==
  /\ [](cur <= max)
  /\ [][/\ \A b \in WaitingTypes :
             Reported(b) =>
               /\ sessionState'.isWaiting
               /\ ~sessionState.isWaiting =>
                    sessionState'.currentIntervalMs = Min(cur + base, max)
               /\ sessionState.isWaiting =>
                    sessionState'.currentIntervalMs = cur
        /\ sessionState.isWaiting /\ ~sessionState'.isWaiting =>
             \E b \in BlockerTypes \ WaitingTypes : Reported(b)]_vars

C3_Witness ==
  /\ sessionState.isWaiting
  /\ sessionState.blockerType = "waiting_for_process"
  /\ cur = 2 * base
  /\ cur < max

\* C4: a completed check-in that reports none or other sets
\* currentIntervalMs to baseIntervalMs and isWaiting to false.
C4_LeaveWaitingResets ==
  [][\A b \in {"none", "other"} :
       Reported(b) =>
         /\ sessionState'.currentIntervalMs = base
         /\ sessionState'.baseIntervalMs = base
         /\ ~sessionState'.isWaiting]_vars

C4_Witness ==
  /\ sessionState.blockerType = "other"
  /\ ~sessionState.isWaiting
  /\ cur = base
  /\ \E f \in BagToSet(flows) : f.pc = "save"

\* C5: when isWaiting is false, a completed check-in reporting none leaves
\* currentIntervalMs unchanged.
C5_NoneIdempotent ==
  [][(~sessionState.isWaiting /\ Reported("none")) =>
       sessionState'.currentIntervalMs = cur]_vars

\* C6 as stated: baseIntervalMs <= currentIntervalMs <= maxIntervalMs in
\* every reachable state, every configuration having base <= max.
C6_IntervalWithinBaseAndMax == base <= cur /\ cur <= max

\* C6 amended: currentIntervalMs <= maxIntervalMs in every reachable state,
\* and baseIntervalMs <= currentIntervalMs in every reachable state where
\* isWaiting is false, every configuration having base <= max.
C6_Amended == cur <= max /\ (~sessionState.isWaiting => base <= cur)

C6_Witness == sessionState.isWaiting /\ cur < base /\ cur < max

\* C7: currentIntervalMs <= maxIntervalMs after every operation that writes
\* currentIntervalMs or maxIntervalMs, for every sequence of configurations
\* with positive values.
C7_ClampedAfterEveryWrite == cur <= max

\* C8: a configuration change installs the new base, max and idle
\* threshold; when isWaiting is false and the base differs, currentIntervalMs
\* becomes the new base clamped to the new max; when isWaiting is true,
\* currentIntervalMs keeps its value clamped to the new max.
C8_ConfigChange ==
  [][ConfigChange(Configs) =>
       LET newBaseMs == config'.baseIntervalMinutes * MsPerMinute
           newMaxMs == config'.maxIntervalMinutes * MsPerMinute
           newIdleMs == config'.idleThresholdSeconds * MsPerSecond
       IN /\ sessionState'.baseIntervalMs = newBaseMs
          /\ sessionState'.maxIntervalMs = newMaxMs
          /\ sessionState'.idleThresholdMs = newIdleMs
          /\ (~sessionState.isWaiting /\ newBaseMs # base) =>
               sessionState'.currentIntervalMs = Min(newBaseMs, newMaxMs)
          /\ sessionState.isWaiting =>
               sessionState'.currentIntervalMs = Min(cur, newMaxMs)]_vars

C8_Witness ==
  /\ sessionState.isWaiting
  /\ base = MaxMinutes * MsPerMinute
  /\ cur = 2 * MsPerMinute
  /\ max = MaxMinutes * MsPerMinute
  /\ sessionState.idleThresholdMs = 20 * MsPerSecond

\* C9: isWaiting is true exactly when blockerType is waiting_for_person or
\* waiting_for_process.
C9_WaitingIffExternalBlocker ==
  sessionState.isWaiting <=> sessionState.blockerType \in WaitingTypes

C9_Witness ==
  /\ sessionState.isWaiting
  /\ sessionState.blockerType = "waiting_for_person"
  /\ workspaceState.sessionState.isWaiting
  /\ flows = EmptyBag

\* C10: an idle tick arms a ping timer of duration currentIntervalMs exactly
\* when the feature is enabled, now - lastActivityAt >= idleThresholdMs and
\* no timer is armed; any other tick changes nothing, and nothing but a tick
\* arms a timer.
C10_TickArmsIffIdle ==
  [][/\ (Tick /\ IdleCondition) =>
          /\ pingTimeout' # NoTimer
          /\ timers' = timers \cup {[id |-> pingTimeout', due |-> now + cur]}
          /\ sessionState'.pingScheduledAt = now + cur
     /\ (Tick /\ ~IdleCondition) => UNCHANGED vars
     /\ (pingTimeout' # NoTimer /\ pingTimeout' # pingTimeout) =>
          Tick /\ IdleCondition]_vars

C10_Witness ==
  /\ pingTimeout # NoTimer
  /\ \E t \in timers : t.id = pingTimeout /\ t.due = sessionState.pingScheduledAt
  /\ now > sessionState.pingScheduledAt - cur
  /\ now - sessionState.lastActivityAt >= sessionState.idleThresholdMs

\* C11: while enabled is false no tick arms a ping timer, however long the
\* user has been idle: a step taken with enabled = false adds no pending
\* timer and sets no handle, and a tick then changes nothing.
C11_DisabledNeverArms ==
  [][~config.enabled =>
       /\ timers' \subseteq timers
       /\ pingTimeout' \in {pingTimeout, NoTimer}
       /\ Tick => UNCHANGED vars]_vars

C11_Witness ==
  /\ ~config.enabled
  /\ activityCheckInterval
  /\ now - sessionState.lastActivityAt >= 2 * sessionState.idleThresholdMs
  /\ now - sessionState.lastActivityAt >= 4 * TickPeriodMs
  /\ nextHandle = 0
  /\ flows = EmptyBag

\* C12: a check-in flow cancelled by the user at any step (confirmation
\* declined or dismissed, a question dismissed, the blocker-type picker
\* dismissed) leaves blockerType, isWaiting, currentIntervalMs and the stored
\* last snapshot as they were when the step that closes the dialog is taken.
C12_CancelMutatesNothing ==
  [][\A f \in BagToSet(flows) :
       (DialogCancelled(f) \/ PickerDismissed(f)) =>
         /\ sessionState'.blockerType = sessionState.blockerType
         /\ sessionState'.isWaiting = sessionState.isWaiting
         /\ sessionState'.currentIntervalMs = sessionState.currentIntervalMs
         /\ workspaceState'.lastGitSnapshot = workspaceState.lastGitSnapshot]_vars

\* C13: the manual trigger starts a check-in flow whatever the scheduler
\* state (idle or not, enabled or not, armed or not); the armed timer is
\* cancelled first, so the handle and pingScheduledAt are cleared and the
\* timer is no longer pending; the flow started is the one a timer starts.
C13_ManualTrigger ==
  [][TriggerPingNow =>
       /\ flows' = flows (+) Flow1([pc |-> "compare"])
       /\ pingTimeout' = NoTimer
       /\ sessionState'.pingScheduledAt = Null
       /\ \A t \in timers' : t.id # pingTimeout
       /\ timers' \subseteq timers
       /\ Armed => \E c \in cancelled' : c.id = pingTimeout]_vars

C13_Witness ==
  /\ listening
  /\ now = TickPeriodMs
  /\ sessionState.lastActivityAt = 0
  /\ cancelled # {}
  /\ [pc |-> "compare"] \in BagToSet(flows)
  /\ pingTimeout = NoTimer
  /\ timers = {}

\* a step in which a check-in flow ends: cancelled, completed, or aborted
FlowEnds ==
  \E f \in BagToSet(flows) :
    \/ DialogCancelled(f)
    \/ DialogFailed(f)
    \/ SaveSnapshotFailed(f)
    \/ \E ok \in BOOLEAN : SaveSnapshotDone(f, ok)
    \/ \E b \in BlockerTypes : SaveStateFailed(f, b)

HandlePending == \E t \in timers : t.id = pingTimeout

\* C14: after a check-in flow ends in any way (completed, cancelled, aborted
\* by an error) no ping timer is left armed.
C14_NoTimerLeftArmed ==
  [][FlowEnds => pingTimeout' = NoTimer]_vars

\* C14 (amended): the end of a check-in flow, however it ends, changes
\* neither the handle nor the pending timers; the handle is always either
\* unset or the handle of a pending timer (one that a tick armed while the
\* flow was open), so it never blocks re-arming; and a tick that finds the
\* user idle, the feature enabled and the handle unset arms a new timer.
C14_Amended ==
  [][/\ FlowEnds => pingTimeout' = pingTimeout /\ timers' = timers
     /\ Armed' => HandlePending'
     /\ (Tick /\ IdleCondition) =>
          /\ Armed'
          /\ [id |-> pingTimeout', due |-> now + cur] \in timers']_vars

\* a timer armed at this instant although the last flow was aborted by a
\* rejected save of the state (memory says waiting, storage does not)
C14_Witness ==
  /\ flows = EmptyBag
  /\ sessionState.isWaiting
  /\ ~workspaceState.sessionState.isWaiting
  /\ Armed
  /\ HandlePending
  /\ now > 0
  /\ sessionState.pingScheduledAt = now + cur

\* the analyses handed to the open dialogs, and the current lists that give
\* each of them against the stored snapshot
last == workspaceState.lastGitSnapshot
Analyses == {f.analysis : f \in {g \in BagToSet(flows) : g.pc = "dialog"}}
CapturedFor(a) == {S \in SnapshotLists : a = compareWithLast(last, S)}

\* C15: with no previous snapshot stored the comparison for a current
\* snapshot S is the first-run result: isStuck false, newFiles = S.changedFiles
\* and hasChanges true exactly when S.changedFiles is non-empty.
C15_FirstRun ==
  ~last.present =>
    \A a \in Analyses :
      /\ CapturedFor(a) # {}
      /\ \A S \in CapturedFor(a) :
           /\ a.isStuck = FALSE
           /\ a.newFiles = S
           /\ a.hasChanges <=> (S # <<>>)

C15_Witness ==
  /\ ~last.present
  /\ \E a \in Analyses : a.hasChanges /\ Len(a.newFiles) = MaxFileEntries
  /\ \E a \in Analyses : ~a.hasChanges /\ a.newFiles = <<>> /\ ~a.isStuck

C17_NewFilesIsDifference ==
  last.present =>
    \A a \in Analyses :
      /\ CapturedFor(a) # {}
      /\ \A S \in CapturedFor(a) :
           Range(a.newFiles) = Range(S) \ Range(last.changedFiles)

C17_Witness ==
  /\ last.present
  /\ last.changedFiles = <<"a.ts">>
  /\ gitChangedFiles = <<"a.ts", "c.ts">>
  /\ \E a \in Analyses : a.newFiles = <<"c.ts">>

\* the class the dialog is told: the branch that builds the description
Classification(a) ==
  CASE a.description = "same_files" -> "stuck"
    [] a.description = "no_changes_since_last" -> "inactive"
    [] OTHER -> "progressing"

C19_ProviderFailureIsEmpty ==
  [][\A f \in BagToSet(flows) :
       CompareDone(f, FALSE) =>
         /\ getCurrentSnapshot(Provider(FALSE)) = [threw |-> FALSE, changedFiles |-> <<>>]
         /\ getCurrentSnapshot(Provider(FALSE))
              = getCurrentSnapshot([ok |-> TRUE, files |-> <<>>])
         /\ BagCardinality(flows') = BagCardinality(flows)
         /\ BagIn([pc |-> "dialog", analysis |-> compareWithLast(last, <<>>),
                   captured |-> <<>>], flows')]_vars

C19_Witness ==
  /\ Len(gitChangedFiles) = MaxFileEntries
  /\ last.present
  /\ last.changedFiles = <<>>
  /\ \E a \in Analyses : a = compareWithLast(last, <<>>) /\ a.isStuck /\ ~a.hasChanges

\* C20: loading the state over a record that lacks fields (or over no record)
\* fills each missing field with its default (blockerType none, isWaiting
\* false, base = current = 15 min, max = 60 min, idle threshold = 3 min),
\* keeps each field that is present, and gives pingScheduledAt = null; the
\* new instance starts from that state.
C20_LoadFillsDefaults ==
  [][Restart =>
       LET stored == workspaceState.sessionState
           s == loadState(stored, now)
       IN /\ s.blockerType = IF stored.blockerType = "" THEN "none" ELSE stored.blockerType
          /\ s.isWaiting = stored.isWaiting
          /\ s.baseIntervalMs =
               IF stored.baseIntervalMs = 0 THEN 15 * 60 * 1000 ELSE stored.baseIntervalMs
          /\ s.currentIntervalMs =
               IF stored.currentIntervalMs = 0 THEN 15 * 60 * 1000 ELSE stored.currentIntervalMs
          /\ s.maxIntervalMs =
               IF stored.maxIntervalMs = 0 THEN 60 * 60 * 1000 ELSE stored.maxIntervalMs
          /\ s.idleThresholdMs =
               IF stored.idleThresholdMs = 0 THEN 3 * 60 * 1000 ELSE stored.idleThresholdMs
          /\ s.pingScheduledAt = Null
          /\ sessionState'.blockerType = s.blockerType
          /\ sessionState'.isWaiting = s.isWaiting
          /\ sessionState'.pingScheduledAt = Null]_vars

\* an instance built from a record that had isWaiting but no blockerType
C20_Witness ==
  /\ listening
  /\ sessionState.isWaiting
  /\ sessionState.blockerType = "none"
  /\ sessionState.pingScheduledAt = Null
  /\ workspaceState.sessionState.blockerType = "none"

MsPerHour == 60 * 60 * 1000

\* C21: after the user answers the confirmation with 'Отключить на час' no
\* timer-driven ping starts during the following hour.
C21_NoPingForAnHour ==
  [][(disableRequestedAt # Null /\ now < disableRequestedAt + MsPerHour) =>
       ~(\E h \in 1..MaxTimers : TimerFire(h))]_vars

\* C22: pingScheduledAt is non-null if and only if a ping timer is armed, in
\* every reachable state: the handle is set and its timer is pending.
C22_ScheduledAtIffArmed ==
  /\ (sessionState.pingScheduledAt # Null) <=> Armed
  /\ (sessionState.pingScheduledAt # Null) <=> (timers # {})

\* armed again after a cancellation
C22_Witness ==
  /\ sessionState.pingScheduledAt # Null
  /\ Armed
  /\ cancelled # {}
  /\ nextHandle = MaxTimers

\* C23: at most one ping timer is pending at any time, and a timer is armed
\* only when none is pending.
C23_SingleLiveTimer ==
  [][/\ Cardinality(timers') <= 1
     /\ (timers' \ timers # {}) => timers = {}]_vars

\* a timer pending since an earlier tick, the user still idle
C23_Witness ==
  /\ Cardinality(timers) = 1
  /\ config.enabled
  /\ \E t \in timers : now >= t.due - cur + 2 * TickPeriodMs
  /\ now - sessionState.lastActivityAt >= sessionState.idleThresholdMs + 2 * TickPeriodMs

\* C24: a tick that arms the timer at time t gives it the duration
\* currentIntervalMs as of t and sets pingScheduledAt = t + currentIntervalMs;
\* the timer-driven check-in starts no earlier than pingScheduledAt.
C24_DurationIsCurrentInterval ==
  [][/\ (Tick /\ pingTimeout' # pingTimeout) =>
          /\ sessionState'.pingScheduledAt = now + cur
          /\ [id |-> pingTimeout', due |-> now + cur] \in timers'
     /\ \A h \in 1..MaxTimers :
          TimerFire(h) =>
            /\ h = pingTimeout
            /\ sessionState.pingScheduledAt # Null
            /\ now >= sessionState.pingScheduledAt]_vars

\* the only timer of the session has fired and its check-in is in flight
C24_Witness ==
  /\ nextHandle = 1
  /\ timers = {}
  /\ cancelled = {}
  /\ pingTimeout = NoTimer
  /\ flows # EmptyBag
  /\ now >= sessionState.idleThresholdMs + cur

\* C25: neither the firing of a ping nor any step of the check-in flow writes
\* lastActivityAt; only an activity signal or a state load changes it, so a
\* user who stays idle after a ping is idle for the next tick.  (The start
\* of a flow, by the timer or the command, and each step of it change the
\* bag of flows.)
C25_FlowKeepsLastActivity ==
  [][/\ (flows' # flows) =>
          (sessionState'.lastActivityAt = sessionState.lastActivityAt \/ Restart)
     /\ (sessionState'.lastActivityAt # sessionState.lastActivityAt) =>
          (UpdateActivity \/ Restart)]_vars

\* the first timer fired, a check-in completed, and the poll armed the next
\* timer for a user idle since the start
C25_Witness ==
  /\ nextHandle = 2
  /\ Armed
  /\ cancelled = {}
  /\ now > 0
  /\ sessionState.lastActivityAt = 0
  /\ workspaceState.lastGitSnapshot.present

\* C26: an activity signal changes only lastActivityAt and the timer fields;
\* blockerType, isWaiting, the intervals, the idle threshold and the stored
\* record and snapshot are unchanged, and a second signal at the same instant
\* changes nothing more.
C26_ActivityFrame ==
  [][UpdateActivity =>
       /\ [sessionState' EXCEPT !.lastActivityAt = 0, !.pingScheduledAt = Null]
            = [sessionState EXCEPT !.lastActivityAt = 0, !.pingScheduledAt = Null]
       /\ sessionState'.lastActivityAt = now
       /\ workspaceState' = workspaceState
       /\ flows' = flows
       /\ LET once == updateActivity(Ext, now)
          IN updateActivity(once, now) = once]_vars

\* activity at this instant cancelled the timer of a waiting user
C26_Witness ==
  /\ sessionState.isWaiting
  /\ sessionState.lastActivityAt = now
  /\ now > 0
  /\ pingTimeout = NoTimer
  /\ \E c \in cancelled : ~c.overdue

\* C27: the stored last snapshot is absent as long as no check-in has
\* completed; cancelled check-ins, configuration changes and changes of the
\* working tree leave it as it is.  Here the user cancels every check-in.
C27_AbsentUntilCompleted ==
  ~workspaceState.lastGitSnapshot.present

\* C28: the persisted session record has the blockerType, isWaiting,
\* baseIntervalMs, currentIntervalMs, maxIntervalMs and idleThresholdMs of the
\* in-memory state after every configuration change and every completed
\* check-in (and so in every state, these being the only writers).
C28_RecordEqualsMemory ==
  workspaceState.sessionState = saveState(sessionState)

\* a configuration change and a completed check-in have both been written
C28_Witness ==
  /\ workspaceState.sessionState.blockerType = "waiting_for_process"
  /\ workspaceState.sessionState.currentIntervalMs = 2 * MsPerMinute
  /\ workspaceState.sessionState.baseIntervalMs = MsPerMinute
  /\ workspaceState.sessionState.idleThresholdMs = 20 * MsPerSecond
  /\ sessionState.isWaiting
  /\ workspaceState.lastGitSnapshot.present

\* C29: at most one check-in flow is in progress at any time.
C29_SingleFlow ==
  BagCardinality(flows) <= 1

\* C30: the snapshot stored at the end of a completed check-in has the
\* changedFiles of the snapshot this check-in compared with the previous
\* one, also when the working tree changed while the dialog was open.
C30_StoredIsCompared ==
  [][\A f \in BagToSet(flows) :
       SaveSnapshotDone(f, TRUE) =>
         workspaceState'.lastGitSnapshot.changedFiles = f.captured]_vars

\* C31: when a timer-driven ping fires no activity signal was recorded since
\* its timer was armed (an activity signal or a reload leaves no timer
\* pending), so now - lastActivityAt is at least the idle threshold plus
\* the interval the timer was armed with.
C31_FiresOnlyAfterIdle ==
  [][/\ (sessionState'.lastActivityAt # sessionState.lastActivityAt) => timers' = {}
     /\ \A h \in 1..MaxTimers :
          TimerFire(h) =>
            now - sessionState.lastActivityAt >= sessionState.idleThresholdMs + cur]_vars

\* the second timer fired on a user whose last activity cancelled the first
C31_Witness ==
  /\ flows # EmptyBag
  /\ sessionState.lastActivityAt > 0
  /\ cancelled # {}
  /\ nextHandle = 2
  /\ timers = {}
  /\ pingTimeout = NoTimer
  /\ now - sessionState.lastActivityAt >= sessionState.idleThresholdMs + cur

\* C32: while the enabled setting is false no timer-driven ping is shown,
\* also when the setting is switched off while a ping timer is armed.
C32_DisabledNeverPings ==
  [][\A h \in 1..MaxTimers : TimerFire(h) => config.enabled]_vars

\* C35: a configuration change leaves the timer fields alone: the handle,
\* the pending timer with its due time, pingScheduledAt and lastActivityAt
\* are as before, whatever happens to currentIntervalMs and idleThresholdMs.
C35_ConfigKeepsTimer ==
  [][config' # config =>
       /\ pingTimeout' = pingTimeout
       /\ timers' = timers
       /\ sessionState'.pingScheduledAt = sessionState.pingScheduledAt
       /\ sessionState'.lastActivityAt = sessionState.lastActivityAt]_vars

\* a ping is armed for a time the present interval and idle threshold
\* could not have produced
C35_Witness ==
  /\ Armed
  /\ \E t \in timers : t.id = pingTimeout /\ t.due = sessionState.pingScheduledAt
  /\ sessionState.pingScheduledAt - cur
       < sessionState.lastActivityAt + sessionState.idleThresholdMs

\* C33: in every reachable state with isWaiting false, currentIntervalMs
\* equals baseIntervalMs, every configuration applied having base <= max,
\* across blocker reports, configuration changes and restarts.
C33_IdleIntervalIsBase == ~sessionState.isWaiting => cur = base

\* a check-in reporting other is in memory and in storage under a base
\* interval of two minutes
C33_Witness ==
  /\ ~sessionState.isWaiting
  /\ sessionState.blockerType = "other"
  /\ base = 2 * MsPerMinute
  /\ cur = base
  /\ workspaceState.sessionState.currentIntervalMs = cur

\* C34: under one configuration with base <= max and a fresh state, after
\* any sequence of blocker reports currentIntervalMs is baseIntervalMs or
\* min(2 * baseIntervalMs, maxIntervalMs): one step of size base at most,
\* which does not accumulate over waiting episodes.
C34_AtMostOneStep == cur \in {base, Min(2 * base, max)}

\* the single step was cut short by the maximum
C34_Witness ==
  /\ sessionState.isWaiting
  /\ base < max
  /\ max < 2 * base
  /\ cur = max

\* C37: a completed check-in is applied atomically with respect to
\* failures: when the write of the session record is rejected the snapshot
\* is not replaced, so the interval/blocker update is not in effect either,
\* in memory as in storage.
C37_AllOrNothing ==
  [][\A f \in BagToSet(flows) :
       (\E b \in BlockerTypes : SaveStateFailed(f, b)) =>
         /\ workspaceState'.lastGitSnapshot = workspaceState.lastGitSnapshot
         /\ saveState(sessionState') = saveState(sessionState)
         /\ workspaceState'.sessionState = saveState(sessionState')]_vars

PersistedFields ==
  {"blockerType", "isWaiting", "baseIntervalMs", "currentIntervalMs",
   "maxIntervalMs", "idleThresholdMs"}

\* C38: a restart (save followed by load) keeps blockerType, isWaiting and
\* the four interval fields, sets lastActivityAt to the load time and
\* pingScheduledAt to null and restores no armed ping; a ping is armed
\* only when a full idle threshold has passed since lastActivityAt.
C38_RestartRoundTrip ==
  [][/\ Restart =>
          /\ \A k \in PersistedFields : sessionState'[k] = sessionState[k]
          /\ sessionState'.lastActivityAt = now
          /\ sessionState'.pingScheduledAt = Null
          /\ pingTimeout' = NoTimer
          /\ timers' = {}
     /\ (~Armed /\ pingTimeout' # NoTimer) =>
          now - sessionState.lastActivityAt >= sessionState.idleThresholdMs]_vars

\* a new instance loaded a waiting episode after the clock had moved
C38_Witness ==
  /\ listening
  /\ now > 0
  /\ sessionState.lastActivityAt = now
  /\ sessionState.isWaiting
  /\ cur = 2 * base
  /\ sessionState.pingScheduledAt = Null
  /\ timers = {}
  /\ nextHandle = 0
  /\ cancelled = {}
  /\ flows = EmptyBag

\* C39: after dispose() no ping timer is armed and pingScheduledAt is null,
\* in the state dispose() leaves and in every later one until a new instance
\* is built (no idle tick or activity signal arms a timer, so no
\* timer-driven check-in starts), and a second dispose() changes nothing.
C39_DisposedStaysQuiet ==
  ~listening =>
    /\ pingTimeout = NoTimer
    /\ timers = {}
    /\ sessionState.pingScheduledAt = Null
    /\ dispose(Ext) = Ext

\* dispose() cancelled a ping and the user has been idle under the enabled
\* setting for more than the idle threshold since
C39_Witness ==
  /\ ~listening
  /\ cancelled # {}
  /\ config.enabled
  /\ now - sessionState.lastActivityAt >= sessionState.idleThresholdMs + 2 * TickPeriodMs
  /\ pingTimeout = NoTimer
  /\ flows = EmptyBag

\* C36: with the feature enabled and every dialog eventually answered or
\* dismissed, under fair scheduling of the poll and of timer expiry, either
\* activity signals keep arriving or a timer-driven ping is fired again and
\* again: a ping follows every point after which the user stays idle, and
\* another one follows each check-in.
C36_PingsRecur ==
  \/ []<><<UpdateActivity>>_vars
  \/ []<><<\E h \in 1..MaxTimers : TimerFire(h)>>_vars

\* a ping has fired on a user idle for the longest threshold after an
\* earlier check-in was completed and stored
C36_Witness ==
  /\ \E f \in BagToSet(flows) : f.pc = "compare"
  /\ workspaceState.lastGitSnapshot.present
  /\ sessionState.isWaiting
  /\ sessionState.lastActivityAt = now - LongestIdleMs
  /\ pingTimeout = NoTimer
  /\ timers = {}
====
